---- MODULE Spec2Model ----
(***************************************************************************)
(* Model of the desk booking bot (src/app.py).                             *)
(*                                                                         *)
(* The bookings table lives in PostgreSQL and every function of app.py     *)
(* opens its own connection (get_db_connection), so each call runs in its  *)
(* own transaction at the default READ COMMITTED level:                    *)
(*   - a SELECT sees the rows committed at the moment it runs;             *)
(*   - an INSERT/UPDATE/DELETE is invisible to the other connections       *)
(*     until conn.commit(), and keeps the rows (or the primary-key entry)  *)
(*     it touched locked until then; a statement of another connection     *)
(*     that needs such a row waits for that commit and then works on the   *)
(*     row as committed.                                                   *)
(* Each SQL statement is one step.  Handlers run on concurrent threads     *)
(* (Slack requests) and on the scheduler's thread.                         *)
(***************************************************************************)
EXTENDS Integers, Sequences, FiniteSets, TLC

\* ------------------------------------------------------------ bounds
NumThreads == 2     \* concurrent handle_click requests
NumCmds == 1        \* concurrent /desk command requests
MaxCalls == 3       \* handler invocations in one run
MaxDay == 7         \* days the clock runs past the first Monday

\* ----------------------------------------------------- configuration
ROOMS_DB == << "Small Room 1", "Small Room 2", "Large Room 1",
               "Large Room 2", "Large Room 3", "Large Room 4" >>

DAYS == << "Monday", "Tuesday", "Wednesday", "Thursday", "Friday" >>

None == "None"

Range(s) == { s[i] : i \in 1..Len(s) }

\* Slack user ids.  toggle_booking only tells the caller from any other owner,
\* so two callers are drawn for the clicks; a race of N clicks gets N of them.
UserIds == << "U1", "U2", "U3", "U4", "U5" >>
Users == { UserIds[1], UserIds[2] }

\* The day and room-index values a click may carry: a configured day and a
\* day outside DAYS; index 0, and the first index past the end of ROOMS_DB.
DayInputs == { DAYS[1], "Sunday" }
RoomIdxInputs == { 0, Len(ROOMS_DB) }

Sched == 0
Threads == 1..NumThreads
Cmds == (NumThreads + 1)..(NumThreads + NumCmds)
Resetters == {Sched} \cup Cmds
Procs == Threads \cup Resetters

VARIABLES
    bookings,       \* committed rows of table bookings: [day, room, user_id]
    txn,            \* per connection: the uncommitted write and the keys it locks
    pc,             \* per handler: position in its code
    args,           \* per click: toggle_booking's (day, room_index, user_id)
    current_owner,  \* per click: toggle_booking's local current_owner
    result,         \* per click: toggle_booking's local result / outcome
    posted,         \* get_weekly_bookings' fetchall() behind the dashboard last sent
    raced,          \* per call: another connection's commit changed the table
                    \* since the call's own statement (SELECT, or reset's DELETE) ran
    calls,          \* handler invocations so far
    job,            \* the scheduler job's current firing: reset_db's outcome, the
                    \* chat_postMessage calls made and the line it printed last
    now,            \* datetime.now(): the day counted from a Monday, and the hour
    labels          \* get_display_dates() behind the dashboard last sent

vars == << bookings, txn, pc, args, current_owner, result, posted, raced, calls,
           job, now, labels >>

\* -------------------------------------------------------- the table
KeyOf(row) == << row.day, row.room >>

Keys(rows) == { KeyOf(row) : row \in rows }

\* row[0] if row else None, for the row(s) SELECT finds for a key
Owner(rows, key) ==
    LET found == { row \in rows : KeyOf(row) = key }
    IN IF found = {} THEN None ELSE (CHOOSE row \in found : TRUE).user_id

NoWrite == [op |-> "none", keys |-> {}, user |-> None]

\* Mutant: a plain INSERT into a table without the primary key.
UpsertNoConflict(rows, key, user) ==
    rows \cup { [day |-> key[1], room |-> key[2], user_id |-> user] }

\* INSERT ... ON CONFLICT (day, room) DO UPDATE SET user_id = EXCLUDED.user_id
Upsert(rows, key, user) ==
    { row \in rows : KeyOf(row) # key }
        \cup { [day |-> key[1], room |-> key[2], user_id |-> user] }

\* Mutant: the WHERE of the DELETE inverted, which keeps the rows it names.
DeleteOtherRows(rows, keys) == { row \in rows : KeyOf(row) \in keys }

\* DELETE of the rows the statement found
Delete(rows, keys) == { row \in rows : KeyOf(row) \notin keys }

\* Mutant: the rows of a DELETE go one commit at a time.
ApplyOneRow(t, rows) ==
    CASE t.op = "upsert" -> Upsert(rows, CHOOSE k \in t.keys : TRUE, t.user)
      [] t.op = "delete" /\ t.keys # {} -> Delete(rows, {CHOOSE k \in t.keys : TRUE})
      [] OTHER -> rows

\* conn.commit(): the connection's write becomes the committed state
Apply(t, rows) ==
    CASE t.op = "upsert" -> Upsert(rows, CHOOSE k \in t.keys : TRUE, t.user)
      [] t.op = "delete" -> Delete(rows, t.keys)
      [] OTHER -> rows

LockedByOther(p, key) == \E q \in Procs \ {p} : key \in txn[q].keys

\* ---------------------------------------------------------- helpers
\* Python's list indexing: 0..len-1 and -len..-1 are valid, else IndexError
ValidIndex(seq, i) == i >= -Len(seq) /\ i < Len(seq)

PyIndex(seq, i) == IF i >= 0 THEN seq[i + 1] ELSE seq[Len(seq) + i + 1]

NoArgs == [day |-> None, room_index |-> 0, user_id |-> None]

SlotOf(p) == << args[p].day, PyIndex(ROOMS_DB, args[p].room_index) >>

\* Mutant: the row is stored without the membership test, under its own key.
FillRowUnguarded(data, row) ==
    LET days == DOMAIN data \cup {row.day}
        rooms(day) == (IF day \in DOMAIN data THEN DOMAIN data[day] ELSE {})
                          \cup (IF day = row.day THEN {row.room} ELSE {})
    IN [day \in days |->
           [room \in rooms(day) |->
               IF day = row.day /\ room = row.room
                 THEN row.user_id
                 ELSE data[day][room]]]

\* get_weekly_bookings, one fetched row:
\*   if day in data and room in data[day]: data[day][room] = user
FillRow(data, row) ==
    IF row.day \in DOMAIN data /\ row.room \in DOMAIN data[row.day]
      THEN [data EXCEPT ![row.day][row.room] = row.user_id]
      ELSE data

RECURSIVE FillRows(_, _)
\* get_weekly_bookings: for day, room, user in rows
FillRows(data, rows) ==
    IF rows = {}
      THEN data
      ELSE LET row == CHOOSE r \in rows : TRUE
           IN FillRows(FillRow(data, row), rows \ {row})

\* get_weekly_bookings: the grid, all None at first, filled from the fetched rows
Grid(fetched) ==
    FillRows([day \in Range(DAYS) |-> [room \in Range(ROOMS_DB) |-> None]],
             fetched)

\* get_display_dates: the Monday the labels start from is this week's, or
\* next week's once today.weekday() >= 4; one (name, date) label per day.
get_display_dates(today) ==
    LET current_weekday == today.day % 7
        days_ahead == IF current_weekday >= 4
                        THEN 7 - current_weekday
                        ELSE 0 - current_weekday
        reference_monday == today.day + days_ahead
    IN [i \in 1..Len(DAYS) |-> << DAYS[i], reference_monday + (i - 1) >>]

\* scheduled_reset_and_post before it has done anything
NoJob == [reset |-> "none", messages |-> 0, report |-> None]

\* ------------------------------------------------------------- Init
\* The table outlives the process (CREATE TABLE IF NOT EXISTS): at start it is
\* empty or holds what an earlier run left, here a booking of the first slot.
InitTables ==
    { {}, { [day |-> DAYS[1], room |-> ROOMS_DB[1], user_id |-> UserIds[1]] } }

\* The handlers at rest: no request is being served, no dashboard row is shown.
InitHandlers ==
    /\ txn = [p \in Procs |-> NoWrite]
    /\ pc = [p \in Procs |-> "idle"]
    /\ args = [p \in Threads |-> NoArgs]
    /\ current_owner = [p \in Threads |-> None]
    /\ result = [p \in Threads |-> None]
    /\ posted = {}
    /\ raced = [p \in Procs |-> FALSE]
    /\ calls = 0
    /\ job = NoJob
    /\ now = [day |-> 0, hour |-> 0]
    /\ labels = get_display_dates(now)

Init == bookings \in InitTables /\ InitHandlers

\* ----------------------------------------------- handle_click / toggle
\* handle_click up to toggle_booking's SELECT:
\*   room_name = ROOMS_DB[room_index]        (IndexError leaves the handler)
\*   SELECT user_id FROM bookings WHERE day = %s AND room = %s
\*   current_owner = row[0] if row else None;  result = "error"
Call(p, day, room_index, user_id) ==
    /\ pc[p] = "idle"
    /\ calls < MaxCalls
    /\ calls' = calls + 1
    /\ args' = [args EXCEPT ![p] =
                  [day |-> day, room_index |-> room_index, user_id |-> user_id]]
    /\ IF ValidIndex(ROOMS_DB, room_index)
         THEN /\ pc' = [pc EXCEPT ![p] = "branch"]
              /\ current_owner' = [current_owner EXCEPT ![p] =
                     Owner(bookings, << day, PyIndex(ROOMS_DB, room_index) >>)]
              /\ result' = [result EXCEPT ![p] = "error"]
         ELSE /\ pc' = [pc EXCEPT ![p] = "raised"]
              /\ current_owner' = current_owner
              /\ result' = [result EXCEPT ![p] = "IndexError"]
    /\ raced' = [raced EXCEPT ![p] = FALSE]
    /\ UNCHANGED << bookings, txn, posted, job, now, labels >>

\* Mutant: the elif's owner test dropped, so any owner's booking is released.
ToggleWriteAnyOwner(rows, key, owner, user) ==
    IF owner = None
      THEN [op |-> "upsert", keys |-> {key}, user |-> user]
      ELSE [op |-> "delete", keys |-> {key} \cap Keys(rows), user |-> None]

\* Mutant: the DELETE of a release without "AND room = %s".
ToggleWriteWholeDay(rows, key, owner, user) ==
    IF owner = None
      THEN [op |-> "upsert", keys |-> {key}, user |-> user]
      ELSE IF owner = user
        THEN [op |-> "delete", keys |-> { k \in Keys(rows) : k[1] = key[1] },
              user |-> None]
        ELSE NoWrite

\* Mutant: the elif branch without its DELETE, so a release writes nothing.
ToggleWriteNeverReleases(rows, key, owner, user) ==
    IF owner = None
      THEN [op |-> "upsert", keys |-> {key}, user |-> user]
      ELSE NoWrite

\* The statement the if/elif/else issues for the owner that was read, as the
\* connection's uncommitted write.
ToggleWrite(rows, key, owner, user) ==
    IF owner = None
      THEN [op |-> "upsert", keys |-> {key}, user |-> user]
      ELSE IF owner = user
        THEN [op |-> "delete", keys |-> {key} \cap Keys(rows), user |-> None]
        ELSE NoWrite

\* Mutant: the else branch forgets to set result, which stays "error".
ToggleResultNoElse(owner, user) ==
    IF owner = None THEN "booked"
    ELSE IF owner = user THEN "unbooked"
    ELSE "error"

\* result, as the branch taken sets it
ToggleResult(owner, user) ==
    IF owner = None THEN "booked"
    ELSE IF owner = user THEN "unbooked"
    ELSE "taken"

\* A writing statement waits while another connection holds the row.
ToggleBlocked(p) ==
    LET key == SlotOf(p)
        owner == current_owner[p]
    IN \/ owner = None /\ LockedByOther(p, key)
       \/ owner = args[p].user_id /\ key \in Keys(bookings) /\ LockedByOther(p, key)

WriteStmt(p) ==
    /\ pc[p] = "branch"
    /\ ~ToggleBlocked(p)
    /\ txn' = [txn EXCEPT ![p] =
                 ToggleWrite(bookings, SlotOf(p), current_owner[p], args[p].user_id)]
    /\ result' = [result EXCEPT ![p] = ToggleResult(current_owner[p], args[p].user_id)]
    /\ pc' = [pc EXCEPT ![p] = "commit"]
    /\ UNCHANGED << bookings, args, current_owner, posted, raced, calls,
                    job, now, labels >>

\* Connection p's commit changes the table under connection q, which has
\* run its statement and not committed yet.
Disturbs(p, q) ==
    /\ q # p
    /\ pc[q] \in {"branch", "commit"}
    /\ Apply(txn[p], bookings) # bookings

\* conn.commit(); cur.close(); conn.close(); return result
Commit(p) ==
    /\ pc[p] = "commit"
    /\ bookings' = Apply(txn[p], bookings)
    /\ raced' = [q \in Procs |-> raced[q] \/ Disturbs(p, q)]
    /\ txn' = [txn EXCEPT ![p] = NoWrite]
    /\ pc' = [pc EXCEPT ![p] = "returned"]
    /\ UNCHANGED << args, current_owner, result, posted, calls, job, now, labels >>

\* handle_click after toggle_booking: the ephemeral notice on "taken", else
\* chat_update with a freshly read dashboard.  An IndexError leaves the handler.
Respond(p) ==
    /\ pc[p] \in {"returned", "raised"}
    /\ posted' = IF pc[p] = "returned" /\ result[p] # "taken"
                   THEN bookings
                   ELSE posted
    /\ labels' = IF pc[p] = "returned" /\ result[p] # "taken"
                   THEN get_display_dates(now)
                   ELSE labels
    /\ pc' = [pc EXCEPT ![p] = "idle"]
    /\ args' = [args EXCEPT ![p] = NoArgs]
    /\ current_owner' = [current_owner EXCEPT ![p] = None]
    /\ result' = [result EXCEPT ![p] = None]
    /\ raced' = [raced EXCEPT ![p] = FALSE]
    /\ UNCHANGED << bookings, txn, calls, job, now >>

\* ------------------------------------------------------------ resets
\* /desk: "new" runs reset_db first, anything else goes to the dashboard
OpenDashboard(c, user_text) ==
    /\ pc[c] = "idle"
    /\ calls < MaxCalls
    /\ calls' = calls + 1
    /\ pc' = [pc EXCEPT ![c] = IF user_text = "new" THEN "delete" ELSE "blocks"]
    /\ UNCHANGED << bookings, txn, args, current_owner, result, posted, raced,
                    job, now, labels >>

\* The cron job fires; APScheduler runs one instance of a job at a time.
ScheduledFire ==
    /\ pc[Sched] = "idle"
    /\ calls < MaxCalls
    /\ calls' = calls + 1
    /\ pc' = [pc EXCEPT ![Sched] = "delete"]
    /\ job' = NoJob
    /\ UNCHANGED << bookings, txn, args, current_owner, result, posted, raced,
                    now, labels >>

\* Mutant: the DELETE removes a single row (a LIMIT, or a WHERE on one key).
ResetWriteOneRow(rows) ==
    [op |-> "delete",
     keys |-> IF rows = {} THEN {} ELSE {CHOOSE k \in Keys(rows) : TRUE},
     user |-> None]

\* Mutant: the DELETE carries a WHERE that keeps the first day's rows.
ResetWriteKeepsDay(rows) ==
    [op |-> "delete", keys |-> { k \in Keys(rows) : k[1] # DAYS[1] }, user |-> None]

\* DELETE FROM bookings: every row committed when the statement runs
ResetWrite(rows) == [op |-> "delete", keys |-> Keys(rows), user |-> None]

\* reset_db up to the DELETE; it waits while a click holds one of the rows
ResetDelete(r) ==
    /\ pc[r] = "delete"
    /\ \A key \in Keys(bookings) : ~LockedByOther(r, key)
    /\ txn' = [txn EXCEPT ![r] = ResetWrite(bookings)]
    /\ raced' = [raced EXCEPT ![r] = FALSE]
    /\ pc' = [pc EXCEPT ![r] = "commit"]
    /\ UNCHANGED << bookings, args, current_owner, result, posted, calls,
                    job, now, labels >>

\* reset_db: conn.commit(); cur.close(); conn.close()
ResetCommit(r) ==
    /\ pc[r] = "commit"
    /\ bookings' = Apply(txn[r], bookings)
    /\ txn' = [txn EXCEPT ![r] = NoWrite]
    /\ raced' = [q \in Procs |-> raced[q] \/ (q \in Threads /\ Disturbs(r, q))]
    /\ pc' = [pc EXCEPT ![r] = "blocks"]
    /\ job' = IF r = Sched THEN [job EXCEPT !.reset = "done"] ELSE job
    /\ UNCHANGED << args, current_owner, result, posted, calls, now, labels >>

\* get_dashboard_blocks() and the message that carries it
PostDashboard(r) ==
    /\ pc[r] = "blocks"
    /\ posted' = bookings
    /\ raced' = [raced EXCEPT ![r] = FALSE]
    /\ pc' = [pc EXCEPT ![r] = "idle"]
    /\ labels' = get_display_dates(now)
    /\ job' = IF r = Sched
                THEN [job EXCEPT !.messages = @ + 1, !.report = "ok"]
                ELSE job
    /\ UNCHANGED << bookings, txn, args, current_owner, result, calls, now >>

\* ------------------------------------------------------------- Next
Next ==
    \/ \E p \in Threads, day \in DayInputs, i \in RoomIdxInputs, u \in Users :
           Call(p, day, i, u)
    \/ \E p \in Threads : WriteStmt(p)
    \/ \E p \in Threads : Commit(p)
    \/ \E p \in Threads : Respond(p)
    \/ \E c \in Cmds, user_text \in {"new", ""} : OpenDashboard(c, user_text)
    \/ ScheduledFire
    \/ \E r \in Resetters : ResetDelete(r)
    \/ \E r \in Resetters : ResetCommit(r)
    \/ \E r \in Resetters : PostDashboard(r)

Spec == Init /\ [][Next]_vars

\* ------------------------------------------------ the claim race (C1)
\* N clicks by N distinct users on one slot of the first day, which is free;
\* no reset, and no click is followed by another of the same thread.
RaceUsers == { UserIds[i] : i \in 1..NumThreads }

InitRace == Init /\ bookings = {}

RaceCall(p, room_index, user_id) ==
    /\ \A q \in Threads : args[q].user_id # user_id
    /\ \A q \in Threads : pc[q] # "idle" => args[q].room_index = room_index
    /\ Call(p, DAYS[1], room_index, user_id)

NextRace ==
    \/ \E p \in Threads, i \in 0..(Len(ROOMS_DB) - 1), u \in RaceUsers :
           RaceCall(p, i, u)
    \/ \E p \in Threads : WriteStmt(p)
    \/ \E p \in Threads : Commit(p)

SpecRace == InitRace /\ [][NextRace]_vars

\* --------------------------------------- one toggle against one reset
\* A week in progress: the first room of Monday is booked by one user, the
\* second by the other, the rest is free.
WeekTable ==
    { [day |-> DAYS[1], room |-> ROOMS_DB[1], user_id |-> UserIds[1]],
      [day |-> DAYS[1], room |-> ROOMS_DB[2], user_id |-> UserIds[2]] }

InitWeek == bookings = WeekTable /\ InitHandlers

\* One toggle_booking call (on a Monday slot that is the caller's, another
\* user's or free) and one reset_db (of the cron job or of "/desk new"), each
\* run up to its return.
NextRaceReset ==
    \/ \E p \in Threads, i \in 0..2, u \in Users :
           /\ \A q \in Threads : pc[q] = "idle"
           /\ Call(p, DAYS[1], i, u)
    \/ \E p \in Threads : WriteStmt(p)
    \/ \E p \in Threads : Commit(p)
    \/ (\A r \in Resetters : pc[r] = "idle") /\ ScheduledFire
    \/ \E c \in Cmds :
           /\ \A r \in Resetters : pc[r] = "idle"
           /\ OpenDashboard(c, "new")
    \/ \E r \in Resetters : ResetDelete(r)
    \/ \E r \in Resetters : ResetCommit(r)

SpecRaceReset == InitWeek /\ [][NextRaceReset]_vars

\* ------------------------------------------- one user toggling twice
\* One booking, of any slot by either user.
InitFlip ==
    /\ \E day \in Range(DAYS), room \in Range(ROOMS_DB), user \in Users :
          bookings = { [day |-> day, room |-> room, user_id |-> user] }
    /\ InitHandlers

\* The owner clicks the button of the booked slot; once that call has
\* returned, the same user clicks the same button again.
FlipCall(p) ==
    \/ /\ \A q \in Threads : pc[q] = "idle"
       /\ \E row \in bookings, i \in 0..(Len(ROOMS_DB) - 1) :
             /\ PyIndex(ROOMS_DB, i) = row.room
             /\ Call(p, row.day, i, row.user_id)
    \/ \E q \in Threads \ {p} :
          /\ pc[q] = "returned"
          /\ \A x \in Threads \ {q} : pc[x] = "idle"
          /\ Call(p, args[q].day, args[q].room_index, args[q].user_id)

NextFlip ==
    \/ \E p \in Threads : FlipCall(p)
    \/ \E p \in Threads : WriteStmt(p)
    \/ \E p \in Threads : Commit(p)

SpecFlip == InitFlip /\ [][NextFlip]_vars

\* -------------------------------------- dashboards read during a reset
\* The slot the clicks of this specification go to: the free one of WeekTable
SnapshotSlot == << DAYS[1], ROOMS_DB[3] >>

\* Resets of the week's table; "/desk" dashboards requested while a reset is
\* in progress; clicks on the free slot, each followed by its dashboard.
NextSnapshot ==
    \/ ScheduledFire
    \/ \E c \in Cmds : OpenDashboard(c, "new")
    \/ \E c \in Cmds :
           /\ \E r \in Resetters \ {c} : pc[r] \in {"delete", "commit"}
           /\ OpenDashboard(c, "")
    \/ \E r \in Resetters : ResetDelete(r)
    \/ \E r \in Resetters : ResetCommit(r)
    \/ \E r \in Resetters : PostDashboard(r)
    \/ \E p \in Threads, u \in Users : Call(p, SnapshotSlot[1], 2, u)
    \/ \E p \in Threads : WriteStmt(p)
    \/ \E p \in Threads : Commit(p)
    \/ \E p \in Threads : Respond(p)

SpecSnapshot == InitWeek /\ [][NextSnapshot]_vars

\* ------------------------------------------- the grid of any table
\* Rows a table may hold: two users' rows for one slot, a row of the last
\* slot, a row for a day outside DAYS and a row for a room outside ROOMS_DB.
GridRows ==
    { [day |-> DAYS[1], room |-> ROOMS_DB[1], user_id |-> UserIds[1]],
      [day |-> DAYS[1], room |-> ROOMS_DB[1], user_id |-> UserIds[2]],
      [day |-> DAYS[Len(DAYS)], room |-> ROOMS_DB[Len(ROOMS_DB)],
       user_id |-> UserIds[2]],
      [day |-> "Sunday", room |-> ROOMS_DB[1], user_id |-> UserIds[1]],
      [day |-> DAYS[1], room |-> "Attic", user_id |-> UserIds[2]] }

\* The tables of those rows that the primary key (day, room) allows
GridTables ==
    { t \in SUBSET GridRows :
        \A r1 \in t : \A r2 \in t : KeyOf(r1) = KeyOf(r2) => r1 = r2 }

InitGrid == bookings \in GridTables /\ InitHandlers

\* "/desk" without "new": the dashboard is built from the table as it is
NextGrid ==
    \/ \E c \in Cmds : OpenDashboard(c, "")
    \/ \E c \in Cmds : PostDashboard(c)

SpecGrid == InitGrid /\ [][NextGrid]_vars

\* ------------------------------------------------------- the clock
\* scheduler.add_job(..., 'cron', day_of_week='fri', hour=14, minute=0)
ResetWeekday == 4
ResetHour == 14

\* Time passes: from 00:00 to the reset hour of the same day, or on to 00:00
\* of the next day.  The move to Friday's reset hour is CronFire's.
Tick ==
    /\ IF now.hour < ResetHour
         THEN /\ now.day % 7 # ResetWeekday
              /\ now' = [now EXCEPT !.hour = ResetHour]
         ELSE /\ now.day < MaxDay
              /\ now' = [day |-> now.day + 1, hour |-> 0]
    /\ UNCHANGED << bookings, txn, pc, args, current_owner, result, posted,
                    raced, calls, job, labels >>

\* It is Friday 14:00: the cron trigger starts scheduled_reset_and_post,
\* unless the run before it is still going (one instance of a job at a time).
CronFire ==
    /\ now.day % 7 = ResetWeekday
    /\ now.hour < ResetHour
    /\ now' = [now EXCEPT !.hour = ResetHour]
    /\ pc' = [pc EXCEPT ![Sched] = IF pc[Sched] = "idle" THEN "delete" ELSE @]
    /\ job' = IF pc[Sched] = "idle" THEN NoJob ELSE job
    /\ UNCHANGED << bookings, txn, args, current_owner, result, posted, raced,
                    calls, labels >>

\* A week of the bot: the clock, the cron job, and "/desk" at any time.
NextClock ==
    \/ Tick
    \/ CronFire
    \/ \E c \in Cmds : OpenDashboard(c, "")
    \/ \E r \in Resetters : ResetDelete(r)
    \/ \E r \in Resetters : ResetCommit(r)
    \/ \E r \in Resetters : PostDashboard(r)

SpecClock == Init /\ [][NextClock]_vars

\* ------------------------------------------ clicks on several slots
\* Concurrent clicks of the two users on the three first slots of Monday,
\* starting from the week's table; no reset.
NextSlots ==
    \/ \E p \in Threads, i \in 0..2, u \in Users : Call(p, DAYS[1], i, u)
    \/ \E p \in Threads : WriteStmt(p)
    \/ \E p \in Threads : Commit(p)
    \/ \E p \in Threads : Respond(p)

SpecSlots == InitWeek /\ [][NextSlots]_vars

\* ------------------------------------------------ resets in succession
\* reset_db run again and again on any table, by the cron job or by
\* "/desk new", each run starting after the one before has returned.
NextResets ==
    \/ /\ \A r \in Resetters : pc[r] \notin {"delete", "commit"}
       /\ ScheduledFire
    \/ \E c \in Cmds :
          /\ \A r \in Resetters : pc[r] \notin {"delete", "commit"}
          /\ OpenDashboard(c, "new")
    \/ \E r \in Resetters : ResetDelete(r)
    \/ \E r \in Resetters : ResetCommit(r)
    \/ \E r \in Resetters : PostDashboard(r)

SpecResets == InitGrid /\ [][NextResets]_vars

\* ------------------------------------------------------ store failures
\* Mutant: an autocommit connection, where the statement that ran is durable.
RollbackAutocommit(t, rows) == Apply(t, rows)

\* psycopg2 opens a transaction with the first statement; a connection that
\* is dropped without conn.commit() leaves the committed rows as they were.
Rollback(t, rows) == rows

\* Mutant: the handler swallows the error of reset_db and goes on to post.
AfterErrorPosts(r) == IF r = Sched THEN "blocks" ELSE "idle"

\* Mutant: the handler calls reset_db again at once.
AfterErrorRetries(r) == IF r = Sched THEN "delete" ELSE "idle"

\* Where a handler is after an exception: scheduled_reset_and_post's except
\* prints it and the job ends; open_dashboard has no try and the exception
\* leaves the handler.
AfterError(r) == "idle"

\* toggle_booking: the INSERT/DELETE or conn.commit() raises a psycopg2 error.
\* Nothing catches it: it leaves toggle_booking and then handle_click, and the
\* connection goes without a commit.
ToggleFail(p) ==
    /\ pc[p] \in {"branch", "commit"}
    /\ bookings' = Rollback(txn[p], bookings)
    /\ txn' = [txn EXCEPT ![p] = NoWrite]
    /\ pc' = [pc EXCEPT ![p] = "raised"]
    /\ UNCHANGED << args, current_owner, result, posted, raced, calls,
                    job, now, labels >>

\* reset_db: the connection, the DELETE or conn.commit() raises.
ResetFail(r) ==
    /\ pc[r] \in {"delete", "commit"}
    /\ bookings' = Rollback(txn[r], bookings)
    /\ txn' = [txn EXCEPT ![r] = NoWrite]
    /\ pc' = [pc EXCEPT ![r] = AfterError(r)]
    /\ job' = IF r = Sched
                THEN [job EXCEPT !.reset = "failed", !.report = "error"]
                ELSE job
    /\ UNCHANGED << args, current_owner, result, posted, raced, calls, now, labels >>

\* get_dashboard_blocks() or the Slack call that carries it raises.
PostFail(r) ==
    /\ pc[r] = "blocks"
    /\ pc' = [pc EXCEPT ![r] = "idle"]
    /\ raced' = [raced EXCEPT ![r] = FALSE]
    /\ job' = IF r = Sched THEN [job EXCEPT !.report = "error"] ELSE job
    /\ UNCHANGED << bookings, txn, args, current_owner, result, posted, calls,
                    now, labels >>

\* The handlers with store failures; the clicks are on the first slot.
NextFail ==
    \/ \E p \in Threads, u \in Users : Call(p, DAYS[1], 0, u)
    \/ \E p \in Threads : WriteStmt(p)
    \/ \E p \in Threads : Commit(p)
    \/ \E p \in Threads : Respond(p)
    \/ \E p \in Threads : ToggleFail(p)
    \/ \E c \in Cmds, user_text \in {"new", ""} : OpenDashboard(c, user_text)
    \/ ScheduledFire
    \/ \E r \in Resetters : ResetDelete(r)
    \/ \E r \in Resetters : ResetCommit(r)
    \/ \E r \in Resetters : PostDashboard(r)
    \/ \E r \in Resetters : ResetFail(r)
    \/ \E r \in Resetters : PostFail(r)

SpecFail == Init /\ [][NextFail]_vars

\* ------------------------------------------------------------ claims
Clicked(p) == pc[p] \in {"branch", "commit", "returned"}

CommitStep(p) == pc[p] = "commit" /\ pc'[p] \in {"returned", "blocks"}

AllFree(grid) ==
    \A day \in Range(DAYS) : \A room \in Range(ROOMS_DB) : grid[day][room] = None

\* C1: when every one of the N >= 2 racing clicks found the slot free as it
\* started and all have returned, exactly one returned "booked" and the
\* other N-1 returned "taken".
C1_ExactlyOneBooked ==
    (\A p \in Threads : pc[p] = "returned" /\ current_owner[p] = None)
        => /\ Cardinality({ p \in Threads : result[p] = "booked" }) = 1
           /\ Cardinality({ p \in Threads : result[p] = "taken" }) = NumThreads - 1

\* C2: in every reachable state each (day, room) key has at most one row,
\* hence at most one owner.
C2_AtMostOneOwnerPerSlot ==
    \A r1 \in bookings : \A r2 \in bookings : KeyOf(r1) = KeyOf(r2) => r1 = r2

\* C2 witness: two clicks that both found the slot free have both written it,
\* and the slot has a row.
C2_TwoWritersOneRow ==
    \E p \in Threads : \E q \in Threads \ {p} :
        /\ pc[p] = "returned" /\ pc[q] = "returned"
        /\ result[p] = "booked" /\ result[q] = "booked"
        /\ SlotOf(p) = SlotOf(q)
        /\ SlotOf(p) \in Keys(bookings)

\* C3: a slot's owner A changes only in the commit of a release by A on that
\* slot or in the commit of a reset; never in a step of another user's click.
C3_OnlyOwnerOrResetEndsOwnership ==
    [][\A key \in Keys(bookings) :
          Owner(bookings', key) # Owner(bookings, key)
            => \/ \E r \in Resetters : CommitStep(r)
               \/ \E p \in Threads :
                    /\ CommitStep(p)
                    /\ SlotOf(p) = key
                    /\ args[p].user_id = Owner(bookings, key)
                    /\ result[p] = "unbooked"]_vars

\* C4: a click by B that read an owner A other than B (and read it right) has
\* no write, changes no row in any of its steps, and returns "taken".
C4_NonOwnerCannotRelease ==
    [][\A p \in Threads :
          /\ (pc[p] = "idle" /\ pc'[p] = "branch")
                => current_owner'[p] = Owner(bookings, SlotOf(p)')
          /\ (Clicked(p) /\ pc'[p] # pc[p]
                /\ current_owner[p] \notin {None, args[p].user_id})
                => /\ bookings' = bookings
                   /\ txn'[p] = NoWrite
                   /\ pc'[p] # "idle" => result'[p] = "taken"]_vars

\* C4 witness: B's click returned "taken" and the slot is still A's.
C4_TakenAndStillOwned ==
    \E p \in Threads :
        /\ pc[p] = "returned" /\ result[p] = "taken"
        /\ current_owner[p] \notin {None, args[p].user_id}
        /\ Owner(bookings, SlotOf(p)) = current_owner[p]

\* C5: the commit of a release by A removes a row only if that row is A's at
\* the moment of the write.
C5_GuardedRelease ==
    [][\A p \in Threads :
          (CommitStep(p) /\ result[p] = "unbooked")
            => \A row \in bookings \ bookings' : row.user_id = args[p].user_id]_vars

\* C6: nothing takes effect on the slot between a toggle's read and its
\* write: when a click issues its INSERT or DELETE, the slot's owner is the
\* owner the click read.
C6_ReadAndWriteAtomic ==
    [][\A p \in Threads :
          (pc[p] = "branch" /\ pc'[p] = "commit" /\ result'[p] # "taken")
            => Owner(bookings, SlotOf(p)) = current_owner[p]]_vars

\* C7: a click by A that commits with no other commit having changed the
\* table since its SELECT follows the transition table: Free -> owned by A,
\* "booked"; owned by A -> Free, "unbooked"; owned by another -> unchanged,
\* "taken"; never "error".
C7_TransitionTable ==
    [][\A p \in Threads :
          (CommitStep(p) /\ ~raced[p])
            => LET key == SlotOf(p)
                   a == args[p].user_id
                   o == Owner(bookings, key)
               IN /\ o = current_owner[p]
                  /\ o = None => /\ Owner(bookings', key) = a
                                 /\ result'[p] = "booked"
                  /\ o = a => /\ Owner(bookings', key) = None
                              /\ result'[p] = "unbooked"
                  /\ o \notin {None, a} => /\ bookings' = bookings
                                           /\ result'[p] = "taken"
                  /\ \A k \in Keys(bookings) \cup Keys(bookings') :
                        k # key => Owner(bookings', k) = Owner(bookings, k)
                  /\ result'[p] # "error"]_vars

\* C7 witness: an undisturbed release has returned "unbooked" and the slot
\* is free.
C7_ReleasedUndisturbed ==
    \E p \in Threads :
        /\ pc[p] = "returned" /\ ~raced[p]
        /\ result[p] = "unbooked"
        /\ current_owner[p] = args[p].user_id
        /\ Owner(bookings, SlotOf(p)) = None

\* C8 as stated: in the state right after reset_db's commit the grid of
\* get_weekly_bookings is all None.
C8_AllFreeAfterReset ==
    [][\A r \in Resetters : CommitStep(r) => AllFree(Grid(bookings'))]_vars

\* C8 amended: the grid is all None right after reset_db's commit provided
\* no click's commit changed the table since the reset's DELETE ran.
C8_AllFreeAfterQuietReset ==
    [][\A r \in Resetters :
          (CommitStep(r) /\ ~raced[r]) => AllFree(Grid(bookings'))]_vars

\* C8 witness: a quiet reset has completed on a store that held a booking
\* (a dashboard showing it was posted before), and the grid is all None.
C8_ResetCleared ==
    \E r \in Resetters :
        /\ pc[r] = "blocks" /\ ~raced[r]
        /\ ~AllFree(Grid(posted))
        /\ AllFree(Grid(bookings))

\* C9: a click whose day is not in DAYS or whose room index is no index of
\* ROOMS_DB ends in an error, and no row exists for a day or room outside
\* the configured sets.
C9_InvalidSlotRejected ==
    /\ \A row \in bookings :
          row.day \in Range(DAYS) /\ row.room \in Range(ROOMS_DB)
    /\ \A p \in Threads :
          (pc[p] \in {"returned", "raised"}
             /\ (args[p].day \notin Range(DAYS)
                   \/ ~ValidIndex(ROOMS_DB, args[p].room_index)))
            => result[p] \notin {"booked", "unbooked", "taken"}

\* C10: at most one execution of reset_db is in progress at any time.
C10_SingleResetInFlight ==
    Cardinality({ r \in Resetters : pc[r] \in {"delete", "commit"} }) <= 1

\* C11: in a firing of scheduled_reset_and_post the week-opened message is
\* sent at most once, only when reset_db of that firing has completed, and
\* not at all when reset_db failed.
C11_BroadcastAfterReset ==
    /\ job.messages <= 1
    /\ job.messages >= 1 => job.reset = "done"
    /\ job.reset = "failed" => job.messages = 0

\* C11 witness: a firing has reset the store and sent its one message.
C11_BroadcastSent ==
    /\ pc[Sched] = "idle"
    /\ job = [reset |-> "done", messages |-> 1, report |-> "ok"]

\* The step in which reset_db or the post of the scheduled job raises.
SchedFailStep ==
    /\ pc[Sched] \in {"delete", "commit", "blocks"}
    /\ job.report # "error"
    /\ job'.report = "error"

\* C12: when reset_db or the post fails in a scheduled firing, the job
\* reports the error and ends: it does not run reset_db again, the failing
\* step changes no row and leaves no uncommitted write or lock behind, and
\* the job is idle for the next firing.
C12_FailureCaughtNoRetry ==
    [][SchedFailStep
         => /\ pc'[Sched] = "idle"
            /\ bookings' = bookings
            /\ txn'[Sched] = NoWrite
            /\ job'.messages = job.messages
            /\ pc[Sched] # "blocks" => job'.reset = "failed"]_vars

\* C12 witness: a firing whose reset_db failed has ended, and the booking
\* it found is still there.
C12_FailedFiringEnded ==
    /\ pc[Sched] = "idle"
    /\ job.reset = "failed" /\ job.report = "error"
    /\ bookings # {}

\* C14: when a statement or the commit of toggle_booking fails, the step
\* changes no row (the slot keeps the owner the call read, if no other
\* commit changed it), the exception leaves toggle_booking, and the call
\* issues no further statement.
C14_FailedToggleChangesNothing ==
    [][\A p \in Threads :
          /\ (pc[p] \in {"branch", "commit"} /\ pc'[p] = "raised")
                => /\ bookings' = bookings
                   /\ txn'[p] = NoWrite
                   /\ ~raced[p] => Owner(bookings', SlotOf(p)) = current_owner[p]
          /\ pc[p] = "raised"
                => /\ pc'[p] \in {"raised", "idle"}
                   /\ txn'[p] = NoWrite
                   /\ pc'[p] # pc[p] => posted' = posted]_vars

\* C14 witness: a claim of a free slot ran its INSERT, failed at the commit,
\* and the slot is still free.
C14_FailedAtCommit ==
    \E p \in Threads :
        /\ pc[p] = "raised" /\ result[p] = "booked"
        /\ current_owner[p] = None
        /\ Owner(bookings, SlotOf(p)) = None

\* (outcome, final owner of the slot) of the toggle run alone, then the reset
ToggleThenReset(rows, key, user) ==
    LET owner == Owner(rows, key)
        toggled == Apply(ToggleWrite(rows, key, owner, user), rows)
        cleared == Apply(ResetWrite(toggled), toggled)
    IN << ToggleResult(owner, user), Owner(cleared, key) >>

\* (outcome, final owner of the slot) of the reset run alone, then the toggle
ResetThenToggle(rows, key, user) ==
    LET cleared == Apply(ResetWrite(rows), rows)
        owner == Owner(cleared, key)
        toggled == Apply(ToggleWrite(cleared, key, owner, user), cleared)
    IN << ToggleResult(owner, user), Owner(toggled, key) >>

\* C13: when one toggle_booking call and one reset_db have both completed,
\* however their steps interleaved, the slot is free or the toggling user's,
\* and (outcome, final owner) is that of toggle-then-reset or of
\* reset-then-toggle from the same starting table.
C13_ToggleResetSerializable ==
    \A p \in Threads : \A r \in Resetters :
        (pc[p] = "returned" /\ pc[r] = "blocks")
          => LET key == SlotOf(p)
                 user == args[p].user_id
                 final == Owner(bookings, key)
             IN /\ final \in {None, user}
                /\ << result[p], final >> \in
                      { ToggleThenReset(WeekTable, key, user),
                        ResetThenToggle(WeekTable, key, user) }

\* C13 witness: the toggle read the slot as its caller's before the reset
\* committed, committed after it, and both have completed.
C13_ReleaseOvertakenByReset ==
    \E p \in Threads : \E r \in Resetters :
        /\ pc[p] = "returned" /\ pc[r] = "blocks"
        /\ current_owner[p] = args[p].user_id
        /\ raced[p]

\* C16: the owner's first toggle of the slot returns "unbooked" and leaves it
\* free; the same user's next toggle of it, with nothing in between, returns
\* "booked" and leaves the user as its owner again.
C16_ToggleTwiceFlipsBack ==
    \A p \in Threads :
        /\ (pc[p] = "returned" /\ \A q \in Threads \ {p} : pc[q] = "idle")
              => /\ result[p] = "unbooked"
                 /\ Owner(bookings, SlotOf(p)) = None
        /\ \A q \in Threads \ {p} :
              (pc[p] = "returned" /\ pc[q] = "returned")
                => /\ { result[p], result[q] } = { "unbooked", "booked" }
                   /\ Owner(bookings, SlotOf(p)) = args[p].user_id

\* C16 witness: both calls have returned, the second one "booked", and the
\* slot is the user's again.
C16_ToggledTwice ==
    \E p \in Threads : \E q \in Threads \ {p} :
        /\ pc[p] = "returned" /\ result[p] = "unbooked"
        /\ pc[q] = "returned" /\ result[q] = "booked"
        /\ SlotOf(q) = SlotOf(p) /\ args[q].user_id = args[p].user_id
        /\ Owner(bookings, SlotOf(q)) = args[q].user_id

\* C15: whatever rows were fetched (none, or rows for a day or a room outside
\* the configured sets), the grid of get_weekly_bookings has exactly the days
\* of DAYS, under each day exactly the rooms of ROOMS_DB, and each entry is
\* the owner in the row of that (day, room), or None when there is no row.
C15_GridComplete ==
    \A rows \in {bookings, posted} :
        LET grid == Grid(rows)
        IN /\ DOMAIN grid = Range(DAYS)
           /\ \A day \in Range(DAYS) :
                 /\ DOMAIN grid[day] = Range(ROOMS_DB)
                 /\ \A room \in Range(ROOMS_DB) :
                       /\ grid[day][room] \in Users \cup {None}
                       /\ grid[day][room] = Owner(rows, << day, room >>)

\* C15 witness: a dashboard was built from rows that hold a booking of a
\* configured slot, a row for a day outside DAYS and a row for a room outside
\* ROOMS_DB.
C15_ForeignRowsFetched ==
    /\ \E row \in posted : row.day \notin Range(DAYS)
    /\ \E row \in posted : row.room \notin Range(ROOMS_DB)
    /\ ~AllFree(Grid(posted))

\* The fetched rows of the slots no click goes to
Untoggled(rows) == { row \in rows : KeyOf(row) # SnapshotSlot }

\* C17: the rows a dashboard was built from, and the rows a read would fetch
\* at any moment, hold for the slots that are not being toggled either all
\* the bookings of before the reset or none of them.
C17_NoMixedSnapshot ==
    \A rows \in {bookings, posted} :
        \/ Untoggled(rows) = WeekTable
        \/ Untoggled(rows) = {}

\* C17 witness: no click was made, and a dashboard requested during a reset,
\* whose DELETE has run and is not committed, shows all the bookings of
\* before the reset.
C17_ReadBeforeResetCommit ==
    \E r \in Resetters :
        /\ pc[r] = "commit" /\ txn[r].keys = Keys(WeekTable)
        /\ \A c \in Cmds \ {r} : pc[c] = "idle"
        /\ \A p \in Threads : pc[p] = "idle"
        /\ calls = 2 /\ bookings = WeekTable
        /\ Untoggled(posted) = WeekTable

\* C18: the commit of a reset_db that follows another reset_db leaves the
\* table as the first left it, and the commit of a reset_db on a store whose
\* grid is all None leaves the grid as it was.
C18_ResetIdempotent ==
    [][\A r \in Resetters :
          CommitStep(r)
            => /\ calls >= 2 => bookings' = bookings
               /\ AllFree(Grid(bookings)) => Grid(bookings') = Grid(bookings)]_vars

\* C18 witness: the second of two resets has completed.
C18_ResetTwice ==
    \E r \in Resetters :
        /\ pc[r] = "blocks" /\ calls = 2
        /\ \A q \in Resetters \ {r} : pc[q] = "idle"
        /\ bookings = {}

\* C19: no step of a toggle_booking call changes the owner of a slot other
\* than the call's own, whatever the call's outcome and whatever the clicks
\* running at the same time on other slots do.
C19_OtherSlotsUntouched ==
    [][\A p \in Threads :
          pc'[p] # pc[p]
            => \A key \in Keys(bookings) \cup Keys(bookings') :
                  (pc[p] = "idle" \/ key # SlotOf(p))
                    => Owner(bookings', key) = Owner(bookings, key)]_vars

\* C19 witness: a release of one slot has committed while a click on another
\* slot had its statement running, and that other slot still has its owner.
C19_ReleasedBesideAnother ==
    \E p \in Threads : \E q \in Threads \ {p} :
        /\ pc[p] = "returned" /\ result[p] = "unbooked"
        /\ Owner(bookings, SlotOf(p)) = None
        /\ pc[q] = "commit" /\ SlotOf(q) # SlotOf(p)
        /\ Owner(bookings, SlotOf(q)) = current_owner[q]
        /\ current_owner[q] # None

\* The cron job's reset of the week that holds today has committed.
ResetDoneThisWeek ==
    /\ \/ now.day % 7 > ResetWeekday
       \/ now.day % 7 = ResetWeekday /\ now.hour >= ResetHour
    /\ pc[Sched] \notin {"delete", "commit"}

\* C20: whenever a dashboard that shows bookings is sent with date labels
\* that start from next week's Monday, the Friday 14:00 reset of the current
\* week has already cleared the store, so that what is shown was booked
\* after it.
C20_LabelsFollowReset ==
    [][\A r \in Resetters :
          (/\ pc[r] = "blocks" /\ pc'[r] = "idle"
           /\ labels'[1][2] > now.day
           /\ posted' # {})
            => ResetDoneThisWeek]_vars

====
